---------------------------- MODULE Spec2Model ----------------------------
(***************************************************************************)
(* Model of the slave side of the master/slave register protocol of        *)
(* src/task2.c: the task updInputDataParseTask (Ingress Router), the task  *)
(* commandsProcessTask (Command Processor) and udpSendBlocked (Transmit    *)
(* Gate), together with the two FreeRTOS queues that connect them.         *)
(*                                                                         *)
(* Time is kept in milliseconds.  Both tasks run on an RTOS whose          *)
(* computation steps take microseconds while the timeouts are 100 ms and   *)
(* 1000 ms, so time advances (action Tick) only when every task is blocked *)
(* in a queue operation, in FreeRTOS_recvfrom or in FreeRTOS_sendto (a     *)
(* transport write takes an unspecified time).  It advances in steps of    *)
(* the shortest timeout.                                                   *)
(*                                                                         *)
(* The master and the transport are the environment: the master sends      *)
(* Command datagrams (new ones with sequentially incremented packet_id, or *)
(* retransmissions of the last one) and may answer any Response it has     *)
(* received with a ReplyAck, at any later time or never.                   *)
(*                                                                         *)
(* The history ring buffers (commandDataRingBuf, responseDataRingBuf) are  *)
(* write-only in this code and have no implementation in the repository;   *)
(* they are left out.                                                      *)
(***************************************************************************)
EXTENDS Integers, Sequences, FiniteSets, TLC

(***************************************************************************)
(* Program constants (src/task2.c:43-61, 100-101).                         *)
(***************************************************************************)
PACKET_MAX_SIZE == 14

PACKET_TYPE_COMMAND == 1
PACKET_TYPE_RESPONSE == 2
PACKET_TYPE_REQ_ACK == 3
PACKET_TYPE_REPLY_ACK == 4

COMMAND_TYPE_READ_REGISTER == 0
COMMAND_TYPE_WRITE_REGISTER == 1

RESPONSE_FAULT == 0
RESPONSE_OK == 1

SEND_RESPONSE_ATTEMPTS == 3

TIMEOUT_SEND_COMMAND_MS == 1000
TIMEOUT_SEND_REPLY_ACK_MS == 1000
TIMEOUT_RECEIVE_REPLY_ACK_MS == 100

COMMAND_QUEUE_LENGTH == 10
REPLY_ACK_QUEUE_LENGTH == 1

(***************************************************************************)
(* Bounds of the model.                                                    *)
(***************************************************************************)
\* number of Command datagrams a master sends that issues commands of every
\* kind; their packet_id is 1..MaxNew, a retransmission repeats the last one
MaxNew == 2
\* datagrams the socket receive buffer holds
MaxSocket == 1
\* Responses the master has received and may still answer
MaxPending == 1
\* datagrams that are no Command and no ReplyAck which the transport delivers
MaxNoise == 1

\* command_type bytes the master uses: read, write and an unrecognised one
CommandTypes == {COMMAND_TYPE_READ_REGISTER, COMMAND_TYPE_WRITE_REGISTER, 2}
\* register addresses and values on the wire; address 1 is no register
Addresses == {0, 1}
Values == {0, 1}

\* The <<command_type, reg_address>> of the commands a master issues: every
\* command_type on the register, and a write to an address that is no register.
\* (What reg_read leaves in *value for such an address is not in the repository;
\* reads of it are left out.)
AllCommands ==
  {c \in CommandTypes \X Addresses : c[2] = 0 \/ c[1] = COMMAND_TYPE_WRITE_REGISTER}

\* The master behaviours explored: few commands of every kind; copies of one
\* write command, as many as it takes to have one in progress, commandDataQueue
\* full and one more in the router's hands; one command among datagrams that
\* are not for the slave; few write commands that reach the slave in the reverse
\* of the order of their packet_ids.  The k-th new command that reaches the
\* slave has packet_id first + (k - 1) * step.
Scenarios ==
  {[new |-> MaxNew, total |-> MaxNew, cmds |-> AllCommands, noise |-> 0,
    first |-> 1, step |-> 1],
   [new |-> 1, total |-> COMMAND_QUEUE_LENGTH + 2,
    cmds |-> {<<COMMAND_TYPE_WRITE_REGISTER, 0>>}, noise |-> 0, first |-> 1, step |-> 1],
   [new |-> 1, total |-> 1, cmds |-> {<<COMMAND_TYPE_WRITE_REGISTER, 0>>}, noise |-> MaxNoise,
    first |-> 1, step |-> 1],
   [new |-> MaxNew, total |-> MaxNew + 1, cmds |-> {<<COMMAND_TYPE_WRITE_REGISTER, 0>>},
    noise |-> 0, first |-> MaxNew, step |-> -1]}
\* the reg_value the master puts in a command: 1 to write, 0 otherwise
WriteValue(op) == IF op = COMMAND_TYPE_WRITE_REGISTER THEN 1 ELSE 0

VARIABLES
  \* ---- environment: master and transport
  scenario,          \* the master behaviour of this run, one of Scenarios
  mNew,              \* number of new commands the master has issued
  mSent,             \* number of Command datagrams the master has sent
  mNoise,            \* number of other datagrams the transport has delivered
  mLast,             \* the last command the master issued (for retransmission)
  pending,           \* Responses the master received and has not answered yet
  socket,            \* datagrams delivered by the transport, not yet received
  regs,              \* the register backend
  codec,             \* the frame the Packet Codec is exercised on (CodecSpec)
  \* ---- shared objects
  commandDataQueue,  \* xQueueCreate(10, sizeof(commandData_t))
  replyAckQueue,     \* xQueueCreate(1, sizeof(ackData_t))
  udpSendMutex,      \* "free" or the name of the task holding it
  \* ---- updInputDataParseTask
  routerPc,          \* "recv", "sendCommand", "sendReplyAck"
  packet,            \* the datagram being routed (packet[], commandData, replyAckData)
  routerTimer,       \* ms left of the xQueueSend the task is blocked in
  routerSignal,      \* the failure signalled by the router's last step
  \* ---- commandsProcessTask
  procPc,            \* "await", "reqAck", "execute", "reset", "loop", "response", "waitAck", "afterLoop"
  sendPc,            \* position inside udpSendBlocked: "idle", "acquire", "sendto",
                     \* "release" (the write succeeded), "releaseFailed" (it failed)
  commandData, responseData, reqAckData, replyAckData, attempt,
  procTimer,         \* ms left of the xQueueReceive on replyAckQueue
  procSignal,        \* what line 187-191 signalled at the end of the last finished cycle
  \* ---- observation (not read by the program)
  sent,              \* frames udpSendBlocked was called for since the last dequeue
  wire,              \* their bytes, as handed to FreeRTOS_sendto
  outcomes,          \* how each finished attempt since the last dequeue ended:
                     \* "timeout", "mismatch", "current" or "stale" (a matching
                     \* ReplyAck answering a Response of this / of an earlier cycle)
  ackHeldUp,         \* time passed in this cycle while commandsProcessTask waited and a
                     \* matching ReplyAck of this cycle was delivered but not forwarded
  enqueued,          \* number of Command records put into commandDataQueue
  writesEnqueued,    \* ... of them with command_type write
  regReads,          \* number of calls of reg_read
  regWrites,         \* number of calls of reg_write
  nullHandleUsed     \* a queue operation was called with a handle not yet created

envVars == <<scenario, mNew, mSent, mNoise, mLast, pending, socket, regs, codec>>
sharedVars == <<commandDataQueue, replyAckQueue, udpSendMutex>>
routerVars == <<routerPc, packet, routerTimer, routerSignal>>
procVars == <<procPc, sendPc, commandData, responseData, reqAckData, replyAckData,
              attempt, procTimer, procSignal>>
countVars == <<enqueued, writesEnqueued, regReads, regWrites, nullHandleUsed>>
obsVars == <<sent, wire, outcomes, ackHeldUp, countVars>>
vars == <<envVars, sharedVars, routerVars, procVars, obsVars>>

(***************************************************************************)
(* Packet Codec.  makePacket, getPacketFromUdp, packetToCommandData and    *)
(* packetToReplyAck are called in src/task2.c but not defined there; they  *)
(* follow the packet structure of lines 3-39: byte 0 packet_type, bytes    *)
(* 1-4 packet_id, and for Command and Response only byte 5 command_type or *)
(* response_status, bytes 6-9 reg_address, bytes 10-13 reg_value.  The     *)
(* uint32_t fields are written most significant byte first.                *)
(***************************************************************************)
PacketTypes ==
  {PACKET_TYPE_COMMAND, PACKET_TYPE_RESPONSE, PACKET_TYPE_REQ_ACK, PACKET_TYPE_REPLY_ACK}

\* a frame: the packet_type and the fields; a field that is not present is 0
Frame(kind, id, type, addr, val) ==
  [kind |-> kind, packet_id |-> id, type |-> type, reg_address |-> addr, reg_value |-> val]

\* a uint32_t as 4 bytes, and the uint32_t at bytes i..i+3 of b
U32(n) == <<(n \div 16777216) % 256, (n \div 65536) % 256, (n \div 256) % 256, n % 256>>
FromU32(b, i) == ((b[i] * 256 + b[i + 1]) * 256 + b[i + 2]) * 256 + b[i + 3]

\* the packet types with bytes 5-13, and the size of a packet of each type
HasBody(kind) == kind \in {PACKET_TYPE_COMMAND, PACKET_TYPE_RESPONSE}
PacketSize(kind) == IF HasBody(kind) THEN PACKET_MAX_SIZE ELSE 1 + 4

\* (an encoder that writes the low byte of packet_id only; one that writes
\* every frame with all its fields)
makePacket_IdLowByte(f) ==
  <<f.kind>> \o <<0, 0, 0, f.packet_id % 256>> \o
  (IF HasBody(f.kind) THEN <<f.type>> \o U32(f.reg_address) \o U32(f.reg_value) ELSE <<>>)

makePacket_AlwaysBody(f) ==
  <<f.kind>> \o U32(f.packet_id) \o <<f.type>> \o U32(f.reg_address) \o U32(f.reg_value)

\* makePacket: the bytes of a frame
makePacket(f) ==
  <<f.kind>> \o U32(f.packet_id) \o
  (IF HasBody(f.kind) THEN <<f.type>> \o U32(f.reg_address) \o U32(f.reg_value) ELSE <<>>)

\* getPacketFromUdp: the datagram b holds a packet (of a known type, not too short)
getPacketFromUdp(b) ==
  /\ Len(b) >= 1
  /\ b[1] \in PacketTypes
  /\ Len(b) >= PacketSize(b[1])

\* the frame of a datagram that holds a packet
decode(b) ==
  IF HasBody(b[1])
    THEN Frame(b[1], FromU32(b, 2), b[6], FromU32(b, 7), FromU32(b, 11))
    ELSE Frame(b[1], FromU32(b, 2), 0, 0, 0)

(***************************************************************************)
(* Datagrams and records.  A datagram is its bytes and cur, a provenance   *)
(* tag the program never reads: a ReplyAck carries cur = TRUE while the    *)
(* Response the master answered with it belongs to the command cycle in    *)
(* progress (see ProcReceiveCommand).                                      *)
(***************************************************************************)
NoPacket == [bytes |-> <<>>, cur |-> FALSE]

CommandPacket(id, op, addr, val) ==
  [bytes |-> makePacket(Frame(PACKET_TYPE_COMMAND, id, op, addr, val)), cur |-> FALSE]

ReplyAckPacket(id, c) ==
  [bytes |-> makePacket(Frame(PACKET_TYPE_REPLY_ACK, id, 0, 0, 0)), cur |-> c]

\* (a router that takes every acknowledgement for a ReplyAck)
IsPacket_AnyAck(p, kind) ==
  /\ getPacketFromUdp(p.bytes)
  /\ \/ p.bytes[1] = kind
     \/ kind = PACKET_TYPE_REPLY_ACK /\ p.bytes[1] = PACKET_TYPE_REQ_ACK

\* a datagram that holds a packet of type kind
IsPacket(p, kind) == getPacketFromUdp(p.bytes) /\ p.bytes[1] = kind

\* packetToCommandData: the commandData_t of a Command packet
packetToCommandData(p) ==
  [packet_id |-> decode(p.bytes).packet_id, command_type |-> decode(p.bytes).type,
   reg_address |-> decode(p.bytes).reg_address, reg_value |-> decode(p.bytes).reg_value]

\* packetToReplyAck: the ackData_t of a ReplyAck packet
packetToReplyAck(p) == [packet_id |-> decode(p.bytes).packet_id, cur |-> p.cur]

\* the ackData_t xQueueReceive copies out of replyAckQueue
AckData(a) == [packet_id |-> a.packet_id]

\* a commandData_t in commandDataQueue and in commandsProcessTask; seq is not part
\* of the program's record: it numbers the records in the order of their enqueue
Enqueued(c, n) ==
  [packet_id |-> c.packet_id, command_type |-> c.command_type,
   reg_address |-> c.reg_address, reg_value |-> c.reg_value, seq |-> n]

NoCommand ==
  [packet_id |-> 0, command_type |-> 0, reg_address |-> 0, reg_value |-> 0, seq |-> 0]
NoAck == [packet_id |-> 0]

\* A new cycle begins: every ReplyAck in existence now answers an earlier cycle.
Stale(p) == [p EXCEPT !.cur = FALSE]
StaleAll(q) == [i \in DOMAIN q |-> Stale(q[i])]

\* the frame udpSendBlocked is called for with a responseData_t / an ackData_t
ResponseFrame(r) ==
  [kind |-> PACKET_TYPE_RESPONSE, packet_id |-> r.packet_id, type |-> r.response_status,
   reg_address |-> r.reg_address, reg_value |-> r.reg_value]

\* (a RequestAck that numbers itself instead of echoing the command's packet_id)
ReqAckFrame_OwnId(a) ==
  [kind |-> PACKET_TYPE_REQ_ACK, packet_id |-> a.packet_id + 1, type |-> 0,
   reg_address |-> 0, reg_value |-> 0]

ReqAckFrame(a) ==
  [kind |-> PACKET_TYPE_REQ_ACK, packet_id |-> a.packet_id, type |-> 0,
   reg_address |-> 0, reg_value |-> 0]

(***************************************************************************)
(* Register backend (external collaborator).                               *)
(***************************************************************************)
ValidAddresses == {0}

\* reg_read(address, &value): <<status, value>>; value is left alone on a fault
reg_read(addr, old) ==
  IF addr \in ValidAddresses THEN <<RESPONSE_OK, regs[addr]>> ELSE <<RESPONSE_FAULT, old>>

\* reg_write(address, value): the status
reg_write(addr) ==
  IF addr \in ValidAddresses THEN RESPONSE_OK ELSE RESPONSE_FAULT

\* the Packet Codec at rest: the protocol's runs do not use this variable
NoFrame == Frame(0, 0, 0, 0, 0)
CodecOff == [pc |-> "off", frame |-> NoFrame, bytes |-> <<>>, decoded |-> NoFrame]

\* The state in which updInputDataParseTask is at pc and commandsProcessTask at the
\* top of its loop, nothing received and nothing sent yet.
Start(pc, c) ==
  /\ scenario \in Scenarios
  /\ mNew = 0 /\ mSent = 0 /\ mNoise = 0 /\ mLast = NoPacket
  /\ pending = {} /\ socket = <<>>
  /\ regs = [a \in ValidAddresses |-> 0]
  /\ codec = c
  /\ commandDataQueue = <<>> /\ replyAckQueue = <<>>
  /\ udpSendMutex = "free"
  /\ routerPc = pc /\ packet = NoPacket /\ routerTimer = 0 /\ routerSignal = "none"
  /\ procPc = "await" /\ sendPc = "idle"
  /\ commandData = NoCommand
  \* responseData is an uninitialised local: reg_value is whatever the stack holds
  /\ \E v \in Values :
       responseData = [packet_id |-> 0, response_status |-> 0, reg_address |-> 0, reg_value |-> v]
  /\ reqAckData = NoAck /\ replyAckData = NoAck
  /\ attempt = 0 /\ procTimer = 0 /\ procSignal = "none"
  /\ sent = <<>> /\ wire = <<>> /\ outcomes = <<>> /\ ackHeldUp = FALSE
  /\ enqueued = 0 /\ writesEnqueued = 0 /\ regReads = 0 /\ regWrites = 0
  /\ nullHandleUsed = FALSE

\* Both queues are created and updInputDataParseTask is at its first recvfrom.
Init == Start("recv", CodecOff)

(***************************************************************************)
(* Environment: the master and the transport.                              *)
(***************************************************************************)
\* the packet_id of the next new command
NextId == scenario.first + mNew * scenario.step

\* The master issues the next command: packet_id incremented sequentially.
MasterNewCommand ==
  /\ mNew < scenario.new /\ mSent < scenario.total /\ Len(socket) < MaxSocket
  /\ \E c \in scenario.cmds :
       LET d == CommandPacket(NextId, c[1], c[2], WriteValue(c[1])) IN
         /\ mLast' = d
         /\ socket' = Append(socket, d)
  /\ mNew' = mNew + 1 /\ mSent' = mSent + 1
  /\ UNCHANGED <<scenario, mNoise, pending, regs, codec, sharedVars, routerVars, procVars,
                 obsVars>>

\* The master sends its last command again (same packet_id).
MasterRetransmit ==
  /\ mLast # NoPacket /\ mSent < scenario.total /\ Len(socket) < MaxSocket
  /\ socket' = Append(socket, mLast)
  /\ mSent' = mSent + 1
  /\ UNCHANGED <<scenario, mNew, mNoise, mLast, pending, regs, codec, sharedVars, routerVars,
                 procVars, obsVars>>

\* The master answers a Response it received with a ReplyAck of the same packet_id.
MasterReplyAck ==
  /\ Len(socket) < MaxSocket
  /\ \E r \in pending :
       /\ socket' = Append(socket, ReplyAckPacket(r.packet_id, r.cur))
       /\ pending' = pending \ {r}
  /\ UNCHANGED <<scenario, mNew, mSent, mNoise, mLast, regs, codec, sharedVars, routerVars,
                 procVars, obsVars>>

\* datagrams that are not for the slave: of an unknown packet_type, too short for
\* their packet_type, empty, and a Response and a RequestAck
NoiseDatagrams ==
  {<<9, 0, 0, 0, 1>>,
   <<PACKET_TYPE_COMMAND, 0, 0, 0, 1>>,
   <<PACKET_TYPE_REPLY_ACK, 0, 0>>,
   <<>>,
   makePacket(Frame(PACKET_TYPE_RESPONSE, 1, RESPONSE_OK, 0, 1)),
   makePacket(Frame(PACKET_TYPE_REQ_ACK, 1, 0, 0, 0))}

\* The transport delivers a datagram that is no Command and no ReplyAck.
TransportNoise ==
  /\ mNoise < scenario.noise /\ Len(socket) < MaxSocket
  /\ \E b \in NoiseDatagrams : socket' = Append(socket, [bytes |-> b, cur |-> FALSE])
  /\ mNoise' = mNoise + 1
  /\ UNCHANGED <<scenario, mNew, mSent, mLast, pending, regs, codec, sharedVars, routerVars,
                 procVars, obsVars>>

(***************************************************************************)
(* updInputDataParseTask: lines 103-129.                                   *)
(***************************************************************************)
\* lines 105-111, 118-120: receive a datagram, check it with getPacketFromUdp and
\* classify it by packet[0].  A datagram that is dropped stays in packet[] until
\* the next recvfrom overwrites it; nothing reads it there, and it is not kept.
RouterReceive ==
  /\ routerPc = "recv" /\ socket # <<>>
  /\ socket' = Tail(socket)
  /\ routerSignal' = "none"
  /\ IF IsPacket(Head(socket), PACKET_TYPE_COMMAND)
       THEN /\ packet' = Head(socket)
            /\ routerPc' = "sendCommand" /\ routerTimer' = TIMEOUT_SEND_COMMAND_MS
       ELSE IF IsPacket(Head(socket), PACKET_TYPE_REPLY_ACK)
         THEN /\ packet' = Head(socket)
              /\ routerPc' = "sendReplyAck" /\ routerTimer' = TIMEOUT_SEND_REPLY_ACK_MS
         ELSE /\ packet' = NoPacket
              /\ routerPc' = "recv" /\ routerTimer' = 0
  /\ UNCHANGED <<scenario, mNew, mSent, mNoise, mLast, pending, regs, codec, sharedVars,
                 procVars, obsVars>>

\* (a queue that takes a record although it is full)
RouterSendCommand_NoLimit ==
  /\ routerPc = "sendCommand"
  /\ commandDataQueue' =
       Append(commandDataQueue, Enqueued(packetToCommandData(packet), enqueued + 1))
  /\ routerPc' = "recv" /\ packet' = NoPacket /\ routerTimer' = 0
  /\ enqueued' = enqueued + 1
  /\ writesEnqueued' =
       IF packetToCommandData(packet).command_type = COMMAND_TYPE_WRITE_REGISTER
         THEN writesEnqueued + 1 ELSE writesEnqueued
  /\ UNCHANGED <<envVars, replyAckQueue, udpSendMutex, routerSignal, procVars,
                 sent, wire, outcomes, ackHeldUp, regReads, regWrites, nullHandleUsed>>

\* line 112, xQueueSend returns pdPASS: there is room in commandDataQueue
RouterSendCommand ==
  /\ routerPc = "sendCommand"
  /\ Len(commandDataQueue) < COMMAND_QUEUE_LENGTH
  /\ commandDataQueue' =
       Append(commandDataQueue, Enqueued(packetToCommandData(packet), enqueued + 1))
  /\ routerPc' = "recv" /\ packet' = NoPacket /\ routerTimer' = 0
  /\ enqueued' = enqueued + 1
  /\ writesEnqueued' =
       IF packetToCommandData(packet).command_type = COMMAND_TYPE_WRITE_REGISTER
         THEN writesEnqueued + 1 ELSE writesEnqueued
  /\ UNCHANGED <<envVars, replyAckQueue, udpSendMutex, routerSignal, procVars,
                 sent, wire, outcomes, ackHeldUp, regReads, regWrites, nullHandleUsed>>

\* (a router that tries the enqueue again instead of dropping the record)
RouterSendCommandTimeout_Retry ==
  /\ routerPc = "sendCommand"
  /\ Len(commandDataQueue) = COMMAND_QUEUE_LENGTH
  /\ routerTimer = 0
  /\ routerSignal' = "commandEnqueueTimeout"
  /\ routerTimer' = TIMEOUT_SEND_COMMAND_MS
  /\ UNCHANGED <<envVars, sharedVars, routerPc, packet, procVars, obsVars>>

\* lines 112-116, xQueueSend returns errQUEUE_FULL: full for the whole timeout
RouterSendCommandTimeout ==
  /\ routerPc = "sendCommand"
  /\ Len(commandDataQueue) = COMMAND_QUEUE_LENGTH
  /\ routerTimer = 0
  /\ routerSignal' = "commandEnqueueTimeout"
  /\ routerPc' = "recv" /\ packet' = NoPacket
  /\ UNCHANGED <<envVars, sharedVars, routerTimer, procVars, obsVars>>

\* line 121, xQueueSend returns pdPASS: there is room in replyAckQueue
RouterSendReplyAck ==
  /\ routerPc = "sendReplyAck"
  /\ Len(replyAckQueue) < REPLY_ACK_QUEUE_LENGTH
  /\ replyAckQueue' = Append(replyAckQueue, packetToReplyAck(packet))
  /\ routerPc' = "recv" /\ packet' = NoPacket /\ routerTimer' = 0
  /\ UNCHANGED <<envVars, commandDataQueue, udpSendMutex, routerSignal, procVars, obsVars>>

\* lines 121-125, xQueueSend returns errQUEUE_FULL
RouterSendReplyAckTimeout ==
  /\ routerPc = "sendReplyAck"
  /\ Len(replyAckQueue) = REPLY_ACK_QUEUE_LENGTH
  /\ routerTimer = 0
  /\ routerSignal' = "replyAckEnqueueTimeout"
  /\ routerPc' = "recv" /\ packet' = NoPacket
  /\ UNCHANGED <<envVars, sharedVars, routerTimer, procVars, obsVars>>

(***************************************************************************)
(* udpSendBlocked: lines 199-209, called by commandsProcessTask while       *)
(* procPc is "reqAck" (line 151) or "response" (line 178).                  *)
(***************************************************************************)
\* line 204: the frame makePacket builds for the caller's data
FrameToSend ==
  IF procPc = "reqAck" THEN ReqAckFrame(reqAckData) ELSE ResponseFrame(responseData)

\* line 206: xMutexAcquire(udpSendMutex, portMAX_DELAY)
UdpSendAcquire ==
  /\ sendPc = "acquire"
  /\ udpSendMutex = "free"
  /\ udpSendMutex' = "commandsProcessTask"
  /\ sendPc' = "sendto"
  /\ UNCHANGED <<envVars, commandDataQueue, replyAckQueue, routerVars, procPc,
                 commandData, responseData, reqAckData, replyAckData, attempt,
                 procTimer, procSignal, obsVars>>

\* (a gate that writes the whole packet[] buffer, not packet_size bytes of it)
UdpSendTo_WholeBuffer ==
  /\ sendPc = "sendto"
  /\ sent' = Append(sent, FrameToSend)
  /\ wire' = Append(wire, makePacket(FrameToSend) \o
                          [i \in 1..(PACKET_MAX_SIZE - Len(makePacket(FrameToSend))) |-> 0])
  /\ \E ok \in BOOLEAN :
       /\ pending' = IF ok /\ procPc = "response" /\ Cardinality(pending) < MaxPending
                      THEN pending \cup {[packet_id |-> decode(makePacket(FrameToSend)).packet_id,
                                          cur |-> TRUE]}
                      ELSE pending
       /\ sendPc' = IF ok THEN "release" ELSE "releaseFailed"
  /\ UNCHANGED <<scenario, mNew, mSent, mNoise, mLast, socket, regs, codec, sharedVars,
                 routerVars, procPc, commandData, responseData, reqAckData, replyAckData,
                 attempt, procTimer, procSignal, outcomes, ackHeldUp, countVars>>

\* line 207: FreeRTOS_sendto(packet, packet_size); its result is not looked at.
\* A written Response reaches the master, who may answer it later.
UdpSendTo ==
  /\ sendPc = "sendto"
  /\ sent' = Append(sent, FrameToSend)
  /\ wire' = Append(wire, makePacket(FrameToSend))
  /\ \E ok \in BOOLEAN :
       /\ pending' = IF ok /\ procPc = "response" /\ Cardinality(pending) < MaxPending
                      THEN pending \cup {[packet_id |-> decode(makePacket(FrameToSend)).packet_id,
                                          cur |-> TRUE]}
                      ELSE pending
       /\ sendPc' = IF ok THEN "release" ELSE "releaseFailed"
  /\ UNCHANGED <<scenario, mNew, mSent, mNoise, mLast, socket, regs, codec, sharedVars,
                 routerVars, procPc, commandData, responseData, reqAckData, replyAckData,
                 attempt, procTimer, procSignal, outcomes, ackHeldUp, countVars>>

\* (a gate that returns without unlocking; one that does so after a failed write)
UdpSendRelease_KeepsLock ==
  /\ sendPc \in {"release", "releaseFailed"}
  /\ sendPc' = "idle"
  /\ IF procPc = "reqAck"
       THEN procPc' = "execute" /\ procTimer' = procTimer
       ELSE procPc' = "waitAck" /\ procTimer' = TIMEOUT_RECEIVE_REPLY_ACK_MS
  /\ UNCHANGED <<envVars, sharedVars, routerVars,
                 commandData, responseData, reqAckData, replyAckData, attempt,
                 procSignal, obsVars>>

UdpSendRelease_LeakOnError ==
  /\ sendPc \in {"release", "releaseFailed"}
  /\ udpSendMutex' = IF sendPc = "releaseFailed" THEN udpSendMutex ELSE "free"
  /\ sendPc' = "idle"
  /\ IF procPc = "reqAck"
       THEN procPc' = "execute" /\ procTimer' = procTimer
       ELSE procPc' = "waitAck" /\ procTimer' = TIMEOUT_RECEIVE_REPLY_ACK_MS
  /\ UNCHANGED <<envVars, commandDataQueue, replyAckQueue, routerVars,
                 commandData, responseData, reqAckData, replyAckData, attempt,
                 procSignal, obsVars>>

\* lines 199, 207-209: what udpSendBlocked hands back to its caller when it
\* returns from gate position pc.  The function is declared void and drops the
\* result of FreeRTOS_sendto, so it is the same after a failed write.
udpSendBlockedReturn(pc) == "void"

\* line 208: xMutexRelease(udpSendMutex), and the return to the caller:
\* line 151 goes on to line 154, line 178 to the xQueueReceive of line 180
UdpSendRelease ==
  /\ sendPc \in {"release", "releaseFailed"}
  /\ udpSendMutex' = "free"
  /\ sendPc' = "idle"
  /\ IF procPc = "reqAck"
       THEN procPc' = "execute" /\ procTimer' = procTimer
       ELSE procPc' = "waitAck" /\ procTimer' = TIMEOUT_RECEIVE_REPLY_ACK_MS
  /\ UNCHANGED <<envVars, commandDataQueue, replyAckQueue, routerVars,
                 commandData, responseData, reqAckData, replyAckData, attempt,
                 procSignal, obsVars>>

(***************************************************************************)
(* commandsProcessTask: lines 142-193.                                     *)
(***************************************************************************)
\* line 142-145: where commandsProcessTask takes the next command
AtReceiveCommand_Pipelined == procPc \in {"await", "waitAck"}
AtReceiveCommand == procPc = "await"

\* lines 145-151: dequeue a command, make the REQ_ACK and call udpSendBlocked
ProcReceiveCommand ==
  /\ AtReceiveCommand
  /\ commandDataQueue # <<>>
  /\ commandData' = Head(commandDataQueue)
  /\ commandDataQueue' = Tail(commandDataQueue)
  /\ reqAckData' = [packet_id |-> Head(commandDataQueue).packet_id]
  /\ procPc' = "reqAck" /\ sendPc' = "acquire"
  /\ sent' = <<>> /\ wire' = <<>> /\ outcomes' = <<>> /\ ackHeldUp' = FALSE
  \* provenance only: the ReplyAcks in existence answer Responses of earlier cycles
  /\ pending' = {Stale(r) : r \in pending}
  /\ socket' = StaleAll(socket)
  /\ packet' = Stale(packet)
  /\ replyAckQueue' = StaleAll(replyAckQueue)
  /\ UNCHANGED <<scenario, mNew, mSent, mNoise, mLast, regs, codec, udpSendMutex, routerPc,
                 routerTimer, routerSignal, responseData, replyAckData, attempt, procTimer,
                 procSignal, countVars>>

\* (a response whose reg_value is never set from the command)
makeResponse_NoEcho(c, prev) ==
  LET r == [prev EXCEPT !.packet_id = c.packet_id, !.reg_address = c.reg_address] IN
    IF c.command_type = COMMAND_TYPE_READ_REGISTER
      THEN [r EXCEPT !.response_status = reg_read(c.reg_address, r.reg_value)[1],
                     !.reg_value = reg_read(c.reg_address, r.reg_value)[2]]
      ELSE IF c.command_type = COMMAND_TYPE_WRITE_REGISTER
        THEN [r EXCEPT !.response_status = reg_write(c.reg_address)]
        ELSE [r EXCEPT !.response_status = RESPONSE_FAULT]

\* lines 154-169: responseData after these lines, for the command c and what the
\* local responseData held before them
makeResponse(c, prev) ==
  LET r == [prev EXCEPT !.packet_id = c.packet_id, !.reg_address = c.reg_address] IN
    IF c.command_type = COMMAND_TYPE_READ_REGISTER
      THEN [r EXCEPT !.response_status = reg_read(c.reg_address, r.reg_value)[1],
                     !.reg_value = reg_read(c.reg_address, r.reg_value)[2]]
      ELSE IF c.command_type = COMMAND_TYPE_WRITE_REGISTER
        THEN [r EXCEPT !.reg_value = c.reg_value,
                       !.response_status = reg_write(c.reg_address)]
        ELSE [r EXCEPT !.response_status = RESPONSE_FAULT]

\* line 164: the registers after reg_write(address, value)
written(addr, val) ==
  IF addr \in ValidAddresses THEN [regs EXCEPT ![addr] = val] ELSE regs

\* lines 157-165: the number of calls of the backend function of command_type op
\* that the command c makes
calls(c, op) == IF c.command_type = op THEN 1 ELSE 0

\* (a processor that does not execute a command whose packet_id is not above the
\* one it answered last)
ProcExecute_Dedup ==
  /\ procPc = "execute"
  /\ IF commandData.packet_id <= responseData.packet_id
       THEN UNCHANGED <<responseData, regs, regReads, regWrites>>
       ELSE /\ responseData' = makeResponse(commandData, responseData)
            /\ regReads' = regReads + calls(commandData, COMMAND_TYPE_READ_REGISTER)
            /\ regWrites' = regWrites + calls(commandData, COMMAND_TYPE_WRITE_REGISTER)
            /\ regs' = IF commandData.command_type = COMMAND_TYPE_WRITE_REGISTER
                         THEN written(commandData.reg_address, commandData.reg_value)
                         ELSE regs
  /\ procPc' = "reset"
  /\ UNCHANGED <<scenario, mNew, mSent, mNoise, mLast, pending, socket, codec, sharedVars,
                 routerVars, sendPc, commandData, reqAckData, replyAckData, attempt,
                 procTimer, procSignal, sent, wire, outcomes, ackHeldUp, enqueued,
                 writesEnqueued, nullHandleUsed>>

\* lines 154-169: make the response
ProcExecute ==
  /\ procPc = "execute"
  /\ responseData' = makeResponse(commandData, responseData)
  /\ regReads' = regReads + calls(commandData, COMMAND_TYPE_READ_REGISTER)
  /\ regWrites' = regWrites + calls(commandData, COMMAND_TYPE_WRITE_REGISTER)
  /\ regs' = IF commandData.command_type = COMMAND_TYPE_WRITE_REGISTER
               THEN written(commandData.reg_address, commandData.reg_value)
               ELSE regs
  /\ procPc' = "reset"
  /\ UNCHANGED <<scenario, mNew, mSent, mNoise, mLast, pending, socket, codec, sharedVars,
                 routerVars, sendPc, commandData, reqAckData, replyAckData, attempt,
                 procTimer, procSignal, sent, wire, outcomes, ackHeldUp, enqueued,
                 writesEnqueued, nullHandleUsed>>

\* lines 172-174: xQueueReset(replyAckQueue); attempt = 0
ProcResetReplyAckQueue ==
  /\ procPc = "reset"
  /\ replyAckQueue' = <<>>
  /\ attempt' = 0
  /\ procPc' = "loop"
  /\ UNCHANGED <<envVars, commandDataQueue, udpSendMutex, routerVars, sendPc,
                 commandData, responseData, reqAckData, replyAckData, procTimer,
                 procSignal, obsVars>>

\* line 174: the loop condition
AttemptsLeft_OneMore(a) == a <= SEND_RESPONSE_ATTEMPTS
AttemptsLeft(a) == a < SEND_RESPONSE_ATTEMPTS

\* lines 174-178: the loop test; in the loop, call udpSendBlocked for the response
ProcLoop ==
  /\ procPc = "loop"
  /\ IF AttemptsLeft(attempt)
       THEN procPc' = "response" /\ sendPc' = "acquire"
       ELSE procPc' = "afterLoop" /\ sendPc' = sendPc
  /\ UNCHANGED <<envVars, sharedVars, routerVars, commandData, responseData,
                 reqAckData, replyAckData, attempt, procTimer, procSignal, obsVars>>

\* observation: what the ReplyAck a is to the command c being processed
AckOutcome(a, c) ==
  IF a.packet_id # c.packet_id THEN "mismatch"
  ELSE IF a.cur THEN "current" ELSE "stale"

\* line 182: the ReplyAck a acknowledges the command c
ReplyAckMatches_WrongField(a, c) == a.packet_id = c.reg_address
ReplyAckMatches_AnyAck(a, c) == TRUE
ReplyAckMatches(a, c) == a.packet_id = c.packet_id

\* lines 180-185, xQueueReceive returns pdPASS: break when the packet_id matches
ProcReceiveReplyAck ==
  /\ procPc = "waitAck"
  /\ replyAckQueue # <<>>
  /\ replyAckData' = AckData(Head(replyAckQueue))
  /\ replyAckQueue' = Tail(replyAckQueue)
  /\ IF ReplyAckMatches(AckData(Head(replyAckQueue)), commandData)
       THEN procPc' = "afterLoop" /\ attempt' = attempt
       ELSE procPc' = "loop" /\ attempt' = attempt + 1
  /\ procTimer' = 0
  /\ outcomes' = Append(outcomes, AckOutcome(Head(replyAckQueue), commandData))
  /\ UNCHANGED <<envVars, commandDataQueue, udpSendMutex, routerVars, sendPc,
                 commandData, responseData, reqAckData, procSignal, sent, wire, ackHeldUp,
                 countVars>>

\* lines 180-185, xQueueReceive returns errQUEUE_EMPTY after the timeout
ProcReplyAckTimeout ==
  /\ procPc = "waitAck"
  /\ replyAckQueue = <<>>
  /\ procTimer = 0
  /\ procPc' = "loop" /\ attempt' = attempt + 1
  /\ outcomes' = Append(outcomes, "timeout")
  /\ UNCHANGED <<envVars, sharedVars, routerVars, sendPc, commandData, responseData,
                 reqAckData, replyAckData, procTimer, procSignal, sent, wire, ackHeldUp,
                 countVars>>

\* line 187: the loop ran out of attempts
NoReplyAck_OffByOne(a) == a >= SEND_RESPONSE_ATTEMPTS - 1
NoReplyAck(a) == a = SEND_RESPONSE_ATTEMPTS

\* lines 187-192: signal the failure when no attempt was acknowledged
ProcFinish ==
  /\ procPc = "afterLoop"
  /\ procSignal' = IF NoReplyAck(attempt) THEN "handshakeFailed" ELSE "none"
  /\ procPc' = "await"
  /\ UNCHANGED <<envVars, sharedVars, routerVars, sendPc, commandData, responseData,
                 reqAckData, replyAckData, attempt, procTimer, obsVars>>

(***************************************************************************)
(* The scheduler's clock.                                                  *)
(***************************************************************************)
\* updInputDataParseTask is blocked in FreeRTOS_recvfrom or in an xQueueSend
RouterBlocked ==
  \/ routerPc = "recv" /\ socket = <<>>
  \/ routerPc = "sendCommand" /\ Len(commandDataQueue) = COMMAND_QUEUE_LENGTH /\ routerTimer > 0
  \/ routerPc = "sendReplyAck" /\ Len(replyAckQueue) = REPLY_ACK_QUEUE_LENGTH /\ routerTimer > 0

\* commandsProcessTask is blocked in one of its xQueueReceive calls, or inside
\* the transport write FreeRTOS_sendto, which returns after an unspecified time
ProcBlocked ==
  \/ procPc = "await" /\ commandDataQueue = <<>>
  \/ procPc = "waitAck" /\ replyAckQueue = <<>> /\ procTimer > 0
  \/ sendPc = "sendto"

\* observation: a ReplyAck the master sent in answer to a Response of the cycle in
\* progress has been delivered and is still in the socket or in the router's hands
IsMatchingAck(p) ==
  /\ IsPacket(p, PACKET_TYPE_REPLY_ACK) /\ p.cur
  /\ decode(p.bytes).packet_id = commandData.packet_id
MatchingAckDelivered ==
  \/ IsMatchingAck(packet)
  \/ \E i \in DOMAIN socket : IsMatchingAck(socket[i])

\* time left of a timeout after d ms
After(t, d) == IF t > d THEN t - d ELSE 0

\* Both tasks are blocked: time passes, in steps of the shortest timeout.
Tick ==
  /\ RouterBlocked /\ ProcBlocked
  /\ routerTimer > 0 \/ procTimer > 0
  /\ routerTimer' = After(routerTimer, TIMEOUT_RECEIVE_REPLY_ACK_MS)
  /\ procTimer' = After(procTimer, TIMEOUT_RECEIVE_REPLY_ACK_MS)
  /\ ackHeldUp' = (ackHeldUp \/ (procPc = "waitAck" /\ MatchingAckDelivered))
  /\ UNCHANGED <<envVars, sharedVars, routerPc, packet, routerSignal, procPc, sendPc,
                 commandData, responseData, reqAckData, replyAckData, attempt,
                 procSignal, sent, wire, outcomes, countVars>>

Next ==
  \/ MasterNewCommand
  \/ MasterRetransmit
  \/ MasterReplyAck
  \/ TransportNoise
  \/ RouterReceive
  \/ RouterSendCommand
  \/ RouterSendCommandTimeout
  \/ RouterSendReplyAck
  \/ RouterSendReplyAckTimeout
  \/ UdpSendAcquire
  \/ UdpSendTo
  \/ UdpSendRelease
  \/ ProcReceiveCommand
  \/ ProcExecute
  \/ ProcResetReplyAckQueue
  \/ ProcLoop
  \/ ProcReceiveReplyAck
  \/ ProcReplyAckTimeout
  \/ ProcFinish
  \/ Tick

Spec == Init /\ [][Next]_vars

\* the steps of updInputDataParseTask and of commandsProcessTask
RouterStep ==
  \/ RouterReceive
  \/ RouterSendCommand
  \/ RouterSendCommandTimeout
  \/ RouterSendReplyAck
  \/ RouterSendReplyAckTimeout

ProcStep ==
  \/ UdpSendAcquire
  \/ UdpSendTo
  \/ UdpSendRelease
  \/ ProcReceiveCommand
  \/ ProcExecute
  \/ ProcResetReplyAckQueue
  \/ ProcLoop
  \/ ProcReceiveReplyAck
  \/ ProcReplyAckTimeout
  \/ ProcFinish

\* Each task is scheduled whenever it can run (a transport write returns), and
\* time passes.  Nothing is assumed of the master.
Fairness == WF_vars(RouterStep) /\ WF_vars(ProcStep) /\ WF_vars(Tick)

FairSpec == Spec /\ Fairness

(***************************************************************************)
(* System start.  The queues are created by updInputDataParseTask (lines   *)
(* 100-101), not before the tasks are started; which task runs first is    *)
(* the scheduler's choice.  udpSendMutex is neither declared nor created   *)
(* in src/task2.c; it is taken to exist when the tasks start.              *)
(***************************************************************************)
\* line 100: commandDataQueue = xQueueCreate(10, sizeof(commandData_t))
RouterCreateCommandDataQueue ==
  /\ routerPc = "createCommandDataQueue"
  /\ routerPc' = "createReplyAckQueue"
  /\ UNCHANGED <<envVars, sharedVars, packet, routerTimer, routerSignal, procVars, obsVars>>

\* line 101: replyAckQueue = xQueueCreate(1, sizeof(ackData_t))
RouterCreateReplyAckQueue ==
  /\ routerPc = "createReplyAckQueue"
  /\ routerPc' = "recv"
  /\ UNCHANGED <<envVars, sharedVars, packet, routerTimer, routerSignal, procVars, obsVars>>

\* line 145 reached before line 100: xQueueReceive on a handle that is still NULL.
\* The call stops the task in configASSERT, or it returns without a record and
\* the loop calls it again.
ProcReceiveCommandNullHandle ==
  /\ procPc = "await" /\ routerPc = "createCommandDataQueue"
  /\ nullHandleUsed' = TRUE
  /\ procPc' \in {"await", "halted"}
  /\ UNCHANGED <<envVars, sharedVars, routerVars, sendPc, commandData, responseData,
                 reqAckData, replyAckData, attempt, procTimer, procSignal,
                 sent, wire, outcomes, ackHeldUp, enqueued, writesEnqueued, regReads,
                 regWrites>>

\* The system at its start: no queue has been created.
StartInit == Start("createCommandDataQueue", CodecOff)

StartNext ==
  \/ RouterCreateCommandDataQueue
  \/ RouterCreateReplyAckQueue
  \/ ProcReceiveCommandNullHandle
  \/ Next

StartSpec == StartInit /\ [][StartNext]_vars

(***************************************************************************)
(* The Packet Codec on its own: a frame is encoded, and its bytes decoded. *)
(***************************************************************************)
\* field values at the ends and at the byte boundaries of their ranges (of the
\* uint32_t fields the lower half, 0 .. 2^31 - 1: the largest integers at hand)
CodecIds == {0, 1, 255, 256, 65536, 16777216, 2147483647}
CodecTypes == {0, 1, 2, 255}
CodecWords == {0, 258, 2147483647}

CodecFrames ==
  {Frame(k, id, t, a, v) : k \in {PACKET_TYPE_COMMAND, PACKET_TYPE_RESPONSE},
                           id \in CodecIds, t \in CodecTypes, a \in CodecWords, v \in CodecWords}
  \cup
  {Frame(k, id, 0, 0, 0) : k \in {PACKET_TYPE_REQ_ACK, PACKET_TYPE_REPLY_ACK}, id \in CodecIds}

protocolVars ==
  <<scenario, mNew, mSent, mNoise, mLast, pending, socket, regs,
    sharedVars, routerVars, procVars, obsVars>>

CodecInit ==
  /\ \E f \in CodecFrames :
       Start("recv", [pc |-> "encode", frame |-> f, bytes |-> <<>>, decoded |-> NoFrame])
  /\ scenario.noise > 0 /\ responseData.reg_value = 0

\* line 204: makePacket
CodecEncode ==
  /\ codec.pc = "encode"
  /\ codec' = [codec EXCEPT !.bytes = makePacket(codec.frame), !.pc = "decode"]
  /\ UNCHANGED protocolVars

\* lines 107-120: getPacketFromUdp and the conversion of the packet
CodecDecode ==
  /\ codec.pc = "decode"
  /\ codec' = [codec EXCEPT
                 !.decoded = IF getPacketFromUdp(codec.bytes) THEN decode(codec.bytes) ELSE NoFrame,
                 !.pc = IF getPacketFromUdp(codec.bytes) THEN "done" ELSE "rejected"]
  /\ UNCHANGED protocolVars

CodecNext == CodecEncode \/ CodecDecode

CodecSpec == CodecInit /\ [][CodecNext]_vars

(***************************************************************************)
(* Observations used by the properties.                                    *)
(***************************************************************************)
Responses == SelectSeq(sent, LAMBDA f : f.kind = PACKET_TYPE_RESPONSE)
ReqAcks == SelectSeq(sent, LAMBDA f : f.kind = PACKET_TYPE_REQ_ACK)
NumResponses == Len(Responses)
NumReqAcks == Len(ReqAcks)

\* a matching ReplyAck was received in the cycle
Matched == \E i \in DOMAIN outcomes : outcomes[i] \in {"current", "stale"}

\* the cycle of commandData has left its retry loop
CycleOver == procPc = "afterLoop" \/ (procPc = "await" /\ commandData # NoCommand)
\* ... and line 187-191 has run for it
CycleFinished == procPc = "await" /\ commandData # NoCommand

Last(q) == q[Len(q)]
IsMatch(o) == o \in {"current", "stale"}

(***************************************************************************)
(* C1.  In every command cycle exactly one RequestAck and between 1 and 3  *)
(* Response frames are handed to the transport; all Responses of the cycle *)
(* are the same frame, and it carries the command's packet_id and          *)
(* reg_address.  (A frame counts as transmitted when FreeRTOS_sendto is    *)
(* called for it; the code does not look at the result of the write.)      *)
(***************************************************************************)
C1_OneReqAckUpToThreeResponses ==
  /\ NumReqAcks <= 1
  /\ NumResponses <= SEND_RESPONSE_ATTEMPTS
  /\ \A i \in DOMAIN sent : i = 1 <=> sent[i].kind = PACKET_TYPE_REQ_ACK
  /\ \A i \in DOMAIN sent : sent[i].packet_id = commandData.packet_id
  /\ \A i, j \in DOMAIN Responses : Responses[i] = Responses[j]
  /\ \A i \in DOMAIN Responses : Responses[i].reg_address = commandData.reg_address
  /\ CycleOver => NumReqAcks = 1 /\ NumResponses >= 1

\* a finished cycle with one RequestAck and two Responses
C1_Witness ==
  CycleFinished /\ NumReqAcks = 1 /\ NumResponses = 2

(***************************************************************************)
(* C2.  Early termination: once a ReplyAck with the command's packet_id is *)
(* received in the wait of attempt k, the cycle has left the retry loop,   *)
(* exactly k Responses have been sent and no further one is sent before    *)
(* the processor is back at AwaitCommand.                                  *)
(***************************************************************************)
C2_EarlyTermination ==
  Matched =>
    /\ CycleOver
    /\ IsMatch(Last(outcomes))
    /\ \A i \in 1..(Len(outcomes) - 1) : ~IsMatch(outcomes[i])
    /\ NumResponses = Len(outcomes)
    /\ attempt = Len(outcomes) - 1

\* the ReplyAck came in the wait of the 2nd attempt; the processor is back at AwaitCommand
C2_Witness ==
  procPc = "await" /\ Matched /\ Len(outcomes) = 2 /\ NumResponses = 2

(***************************************************************************)
(* C3.  Bounded failure: a finished cycle has reported the handshake       *)
(* failure iff none of its attempts received a ReplyAck with the command's *)
(* packet_id; then all 3 attempts were made and exactly 3 Responses sent.  *)
(* A match on any attempt, the 3rd included, reports no failure.           *)
(***************************************************************************)
C3_BoundedFailure ==
  CycleFinished =>
    /\ procSignal = "handshakeFailed" <=> ~Matched
    /\ ~Matched => NumResponses = SEND_RESPONSE_ATTEMPTS
                   /\ Len(outcomes) = SEND_RESPONSE_ATTEMPTS

\* three unanswered attempts, failure reported
C3_Witness ==
  /\ CycleFinished /\ procSignal = "handshakeFailed"
  /\ outcomes = <<"timeout", "timeout", "timeout">> /\ NumResponses = 3

\* (C3 also covers) a cycle acknowledged on its 3rd attempt
C3_ThirdAttemptAcked ==
  CycleFinished /\ Len(outcomes) = 3 /\ Matched /\ procSignal = "none"

(***************************************************************************)
(* C4.  A cycle ends in success only because of a ReplyAck the master sent *)
(* in reply to a Response of that same cycle: no ReplyAck that answers a   *)
(* Response of an earlier cycle is ever taken for the current command's.   *)
(***************************************************************************)
C4_NoStaleAckAccepted ==
  \A i \in DOMAIN outcomes : outcomes[i] # "stale"

(***************************************************************************)
(* C5.  A ReplyAck with another packet_id never ends the cycle as success: *)
(* it consumes the attempt, and the processor goes on to the next attempt  *)
(* (sending the Response again) or, after the 3rd, to the failure report.  *)
(***************************************************************************)
C5_MismatchConsumesAttempt ==
  (outcomes # <<>> /\ Last(outcomes) = "mismatch") =>
    /\ attempt = Len(outcomes)
    /\ IF Len(outcomes) < SEND_RESPONSE_ATTEMPTS
         THEN /\ procPc \in {"loop", "response", "waitAck"}
              /\ procPc = "waitAck" => NumResponses = Len(outcomes) + 1
         ELSE /\ procPc \in {"loop", "afterLoop", "await"}
              /\ procPc = "await" => procSignal = "handshakeFailed"

\* a wrong ReplyAck ended attempt 1 and the Response has been sent again
C5_Witness ==
  procPc = "waitAck" /\ outcomes = <<"mismatch">> /\ NumResponses = 2

(***************************************************************************)
(* C6.  The Ingress Router never blocks the handshake: a handshake whose   *)
(* matching ReplyAck was delivered by the transport while the processor    *)
(* was waiting for it is not reported as failed because the router was     *)
(* busy with another datagram.                                             *)
(***************************************************************************)
C6_RouterNeverBlocksHandshake ==
  ~(CycleFinished /\ procSignal = "handshakeFailed" /\ ackHeldUp)

(***************************************************************************)
(* C7.  Enqueue timeout: a record whose queue stays full for the whole     *)
(* 1000 ms is dropped by the router, not before; the queue is left as it   *)
(* is, the failure is signalled and the router is back at its receive; it  *)
(* keeps no copy of the record.  The router never stays in an enqueue      *)
(* forever.                                                                *)
(***************************************************************************)
RouterWaits == routerPc' = routerPc /\ Stale(packet') = Stale(packet)

C7_EnqueueTimeoutStep ==
  /\ (routerPc = "sendCommand" /\ Len(commandDataQueue) = COMMAND_QUEUE_LENGTH) =>
       \/ RouterWaits /\ routerTimer' <= routerTimer
       \/ /\ routerTimer = 0
          /\ commandDataQueue' = commandDataQueue
          /\ routerPc' = "recv" /\ packet' = NoPacket
          /\ routerSignal' = "commandEnqueueTimeout"
  /\ (routerPc = "sendReplyAck" /\ Len(replyAckQueue) = REPLY_ACK_QUEUE_LENGTH) =>
       \/ RouterWaits /\ routerTimer' <= routerTimer
       \/ /\ routerTimer = 0
          /\ replyAckQueue' = replyAckQueue
          /\ routerPc' = "recv" /\ packet' = NoPacket
          /\ routerSignal' = "replyAckEnqueueTimeout"

\* C7: the enqueue-timeout step, the bound of the wait, and its end
C7_EnqueueTimeout ==
  /\ [][C7_EnqueueTimeoutStep]_vars
  /\ [](routerTimer <= TIMEOUT_SEND_COMMAND_MS)
  /\ (routerPc # "recv") ~> (routerPc = "recv")

\* a Command was dropped after its timeout; commandDataQueue is still full
C7_Witness ==
  /\ routerSignal = "commandEnqueueTimeout" /\ routerPc = "recv" /\ packet = NoPacket
  /\ Len(commandDataQueue) = COMMAND_QUEUE_LENGTH

(***************************************************************************)
(* C8.  Every command cycle terminates: once the processor has dequeued a  *)
(* command it is eventually back at AwaitCommand, whatever the master, the *)
(* transport and the router do.  No failure is fatal: the cycle after a    *)
(* failed one is a full cycle of its own (one RequestAck, 1 to 3 attempts).*)
(***************************************************************************)
C8_CycleAfterFailure ==
  (procPc = "afterLoop" /\ procSignal = "handshakeFailed") =>
    /\ NumReqAcks = 1
    /\ NumResponses \in 1..SEND_RESPONSE_ATTEMPTS
    /\ Len(outcomes) = NumResponses

\* C8: every cycle ends at AwaitCommand; the cycle after a failure is a full one
C8_CycleTerminates ==
  /\ (procPc # "await") ~> (procPc = "await")
  /\ []C8_CycleAfterFailure

\* the cycle after a failed one ended with an acknowledged Response
C8_Witness ==
  procPc = "afterLoop" /\ procSignal = "handshakeFailed" /\ Matched

(***************************************************************************)
(* C9.  Single command in flight: a command is dequeued only when the      *)
(* previous cycle is finished, and every frame produced since the last     *)
(* dequeue belongs to the one command being processed.                     *)
(***************************************************************************)
C9_FramesOfOneCommand ==
  /\ \A i \in DOMAIN sent : sent[i].packet_id = commandData.packet_id
  /\ reqAckData.packet_id = commandData.packet_id
  /\ procPc \in {"reset", "loop", "response", "waitAck", "afterLoop"} =>
       responseData.packet_id = commandData.packet_id

C9_DequeueStep ==
  Len(commandDataQueue') < Len(commandDataQueue) =>
    /\ procPc = "await" /\ sendPc = "idle" /\ udpSendMutex = "free"
    /\ procPc' = "reqAck"
    /\ commandData' = Head(commandDataQueue)

\* C9: one command in flight, in every state and at every dequeue
C9_SingleCommandInFlight ==
  /\ []C9_FramesOfOneCommand
  /\ [][C9_DequeueStep]_vars

\* a later command is in its retry loop (the cycle before it failed) while
\* further ones wait in the queue
C9_Witness ==
  /\ procPc = "waitAck" /\ procSignal = "handshakeFailed" /\ NumResponses = 2
  /\ Len(commandDataQueue) >= 2

(***************************************************************************)
(* C10.  Transmit Gate: a frame is written to the transport only by the    *)
(* holder of udpSendMutex, one write per acquire, and the mutex is         *)
(* released on every return of udpSendBlocked, also after a failed write,  *)
(* so the next send finds it free.                                         *)
(***************************************************************************)
C10_GateState ==
  /\ udpSendMutex \in {"free", "commandsProcessTask"}
  /\ udpSendMutex = "commandsProcessTask" <=> sendPc \in {"sendto", "release", "releaseFailed"}
  /\ sendPc \in {"idle", "acquire"} => udpSendMutex = "free"
  /\ sendPc = "idle" <=> procPc \notin {"reqAck", "response"}

C10_GateStep ==
  /\ (sent' # sent /\ sent' # <<>>) =>
       /\ udpSendMutex = "commandsProcessTask" /\ sendPc = "sendto"
       /\ sendPc' \in {"release", "releaseFailed"}
       /\ Len(sent') = Len(sent) + 1
  /\ sendPc \in {"release", "releaseFailed"} => sent' = sent

\* C10: the gate's state and every write under it
C10_TransmitGate ==
  /\ []C10_GateState
  /\ [][C10_GateStep]_vars

\* the write of the first Response failed (the master never got it), the gate
\* was released, and the second Response is being written under the gate
C10_Witness ==
  /\ procPc = "response" /\ sendPc = "sendto" /\ udpSendMutex = "commandsProcessTask"
  /\ outcomes = <<"timeout">> /\ NumResponses = 1
  /\ pending = {} /\ socket = <<>> /\ packet = NoPacket /\ replyAckQueue = <<>>

(***************************************************************************)
(* C11.  A transport write failure inside udpSendBlocked is reported to    *)
(* the caller as a TransmitError: a return of udpSendBlocked after a       *)
(* failed write hands the caller a TransmitError.  (Inside the retry loop  *)
(* the attempt is consumed all the same, see C1 and C3.)                   *)
(***************************************************************************)
C11_TransmitErrorReported ==
  [][(sendPc = "releaseFailed" /\ sendPc' = "idle") =>
       udpSendBlockedReturn(sendPc) = "TransmitError"]_vars

(***************************************************************************)
(* C12.  Codec round trip: the bytes makePacket writes for a frame of any  *)
(* of the four packet types are accepted by getPacketFromUdp and decode to *)
(* the same frame: the packet type and every field present for it.         *)
(***************************************************************************)
C12_CodecRoundTrip ==
  /\ codec.pc # "rejected"
  /\ codec.pc = "done" => codec.decoded = codec.frame

\* a Command with the largest packet_id and a reg_value of more than one byte
\* has gone through the codec
C12_Witness ==
  /\ codec.pc = "done" /\ codec.decoded = codec.frame
  /\ codec.frame.kind = PACKET_TYPE_COMMAND
  /\ codec.frame.packet_id = 2147483647 /\ codec.frame.reg_value = 258

(***************************************************************************)
(* C13.  Length invariant: every frame the slave hands to the transport is *)
(* a Response of exactly 14 bytes or a RequestAck of exactly 5 bytes; the  *)
(* length depends only on the packet type and is never more than           *)
(* PACKET_MAX_SIZE.                                                        *)
(***************************************************************************)
C13_FrameLength ==
  /\ Len(wire) = Len(sent)
  /\ \A i \in DOMAIN wire :
       /\ Len(wire[i]) <= PACKET_MAX_SIZE
       /\ wire[i][1] = sent[i].kind
       /\ wire[i][1] \in {PACKET_TYPE_RESPONSE, PACKET_TYPE_REQ_ACK}
       /\ wire[i][1] = PACKET_TYPE_RESPONSE => Len(wire[i]) = 14
       /\ wire[i][1] = PACKET_TYPE_REQ_ACK => Len(wire[i]) = 5

\* a RequestAck of 5 bytes and a Response of 14 bytes have been written
C13_Witness ==
  /\ Len(wire) = 2
  /\ wire[1][1] = PACKET_TYPE_REQ_ACK /\ Len(wire[1]) = 5
  /\ wire[2][1] = PACKET_TYPE_RESPONSE /\ Len(wire[2]) = 14

(***************************************************************************)
(* C14.  Channel bounds and order: commandDataQueue never holds more than  *)
(* 10 records and replyAckQueue never more than 1.  Records enter a queue  *)
(* at its tail, put there by the router, and leave it at its head, taken   *)
(* by the processor (replyAckQueue is also emptied by the reset), so the   *)
(* processor takes the commands in the order the router enqueued them: the *)
(* k-th command it takes is the k-th that was enqueued, and the queue      *)
(* holds the ones enqueued after it, oldest first.                         *)
(***************************************************************************)
C14_ChannelBounds ==
  /\ Len(commandDataQueue) <= 10
  /\ Len(replyAckQueue) <= 1

C14_InOrder ==
  /\ commandData.seq = enqueued - Len(commandDataQueue)
  /\ \A i \in DOMAIN commandDataQueue : commandDataQueue[i].seq = commandData.seq + i

C14_ChannelStep ==
  /\ commandDataQueue' # commandDataQueue =>
       \/ /\ routerPc = "sendCommand" /\ IsPacket(packet, PACKET_TYPE_COMMAND)
          /\ commandDataQueue' =
               Append(commandDataQueue, Enqueued(packetToCommandData(packet), enqueued + 1))
          /\ commandData' = commandData
       \/ /\ procPc = "await" /\ commandDataQueue # <<>>
          /\ commandData' = Head(commandDataQueue)
          /\ commandDataQueue' = Tail(commandDataQueue)
  /\ StaleAll(replyAckQueue') # StaleAll(replyAckQueue) =>
       \/ /\ routerPc = "sendReplyAck" /\ IsPacket(packet, PACKET_TYPE_REPLY_ACK)
          /\ replyAckQueue' = Append(replyAckQueue, packetToReplyAck(packet))
          /\ replyAckData' = replyAckData
       \/ /\ procPc = "waitAck" /\ replyAckQueue # <<>>
          /\ replyAckData' = AckData(Head(replyAckQueue))
          /\ replyAckQueue' = Tail(replyAckQueue)
       \/ /\ procPc = "reset"
          /\ replyAckQueue' = <<>>

\* C14: the bounds, the order, and every step that changes a queue
C14_ChannelBoundsAndOrder ==
  /\ []C14_ChannelBounds
  /\ []C14_InOrder
  /\ [][C14_ChannelStep]_vars

\* the processor is at the second of three commands that were enqueued; the
\* third is in the queue
C14_Witness ==
  /\ enqueued = 3 /\ Len(commandDataQueue) = 1 /\ commandDataQueue[1].seq = 3
  /\ commandData.seq = 2 /\ commandData.packet_id = 1 /\ procPc = "execute"

(***************************************************************************)
(* C15.  Response computation, at the step that executes the command: a    *)
(* read answers with the status and the value of reg_read(address) and     *)
(* writes no register; a write answers with the status of reg_write and    *)
(* the command's own reg_value, whatever that status; any other            *)
(* command_type answers Fault, and neither reg_read nor reg_write is       *)
(* called.  The response's reg_address is the command's.  The Responses    *)
(* sent in the cycle are this response.                                    *)
(***************************************************************************)
C15_ExecuteStep ==
  (procPc = "execute" /\ procPc' # "execute") =>
    /\ responseData'.reg_address = commandData.reg_address
    /\ commandData.command_type = COMMAND_TYPE_READ_REGISTER =>
         /\ responseData'.response_status =
              reg_read(commandData.reg_address, responseData.reg_value)[1]
         /\ responseData'.reg_value =
              reg_read(commandData.reg_address, responseData.reg_value)[2]
         /\ regs' = regs
         /\ regReads' = regReads + 1 /\ regWrites' = regWrites
    /\ commandData.command_type = COMMAND_TYPE_WRITE_REGISTER =>
         /\ responseData'.response_status = reg_write(commandData.reg_address)
         /\ responseData'.reg_value = commandData.reg_value
         /\ regReads' = regReads /\ regWrites' = regWrites + 1
    /\ commandData.command_type \notin {COMMAND_TYPE_READ_REGISTER, COMMAND_TYPE_WRITE_REGISTER} =>
         /\ responseData'.response_status = RESPONSE_FAULT
         /\ regs' = regs
         /\ regReads' = regReads /\ regWrites' = regWrites

C15_ResponsesSent ==
  \A i \in DOMAIN Responses : Responses[i] = ResponseFrame(responseData)

\* C15: the response computed at the execute step is the one sent
C15_ResponseComputation ==
  /\ [][C15_ExecuteStep]_vars
  /\ []C15_ResponsesSent

\* a write to an address that is no register was answered: Fault, with the
\* command's reg_value, and the register is as it was
C15_Witness ==
  /\ procPc = "waitAck" /\ NumResponses = 1
  /\ commandData.command_type = COMMAND_TYPE_WRITE_REGISTER /\ commandData.reg_address = 1
  /\ Responses[1].type = RESPONSE_FAULT /\ Responses[1].reg_value = 1
  /\ Responses[1].reg_address = 1 /\ regs[0] = 0

(***************************************************************************)
(* C16.  The Response of a cycle is determined by the cycle's command and  *)
(* the backend's result for it alone: whatever an earlier cycle (or        *)
(* nothing at all) left in responseData, executing the command gives the   *)
(* same response.  In particular the reg_value answered to an unrecognised *)
(* command_type is not the one of the previous cycle's response.           *)
(***************************************************************************)
\* what responseData can hold when a command is executed
PreviousResponses ==
  [packet_id : 0..MaxNew, response_status : {RESPONSE_FAULT, RESPONSE_OK},
   reg_address : Addresses, reg_value : Values]

C16_ResponseDeterminedByCommand ==
  procPc = "execute" =>
    \A prev \in PreviousResponses :
      makeResponse(commandData, prev) = makeResponse(commandData, responseData)

(***************************************************************************)
(* C17.  Ordering and id echo within a cycle: the RequestAck has been      *)
(* handed to the transport before the command is executed against the      *)
(* register backend and before the first Response; every frame the slave   *)
(* hands to the transport is a RequestAck or a Response with the packet_id *)
(* of the command in progress, which is one the master issued; nothing is  *)
(* sent while the processor is at AwaitCommand.                            *)
(***************************************************************************)
C17_IdEcho ==
  /\ \A i \in DOMAIN sent :
       /\ sent[i].kind \in {PACKET_TYPE_REQ_ACK, PACKET_TYPE_RESPONSE}
       /\ sent[i].kind = PACKET_TYPE_REQ_ACK <=> i = 1
       /\ sent[i].packet_id = commandData.packet_id
       /\ sent[i].packet_id \in {scenario.first + k * scenario.step : k \in 0..(mNew - 1)}
       /\ decode(wire[i]).packet_id = commandData.packet_id
  /\ procPc \in {"execute", "reset", "loop", "response", "waitAck", "afterLoop"} =>
       NumReqAcks = 1

C17_OrderStep ==
  /\ (regs' # regs \/ regReads' # regReads \/ regWrites' # regWrites) =>
       /\ procPc = "execute"
       /\ NumReqAcks = 1 /\ NumResponses = 0
  /\ (sent' # sent /\ sent' # <<>>) =>
       /\ procPc \in {"reqAck", "response"} /\ procPc' = procPc
       /\ Len(sent') = Len(sent) + 1
       /\ procPc = "reqAck" <=> sent = <<>>
  /\ procPc' = "await" => sent' = sent

\* C17: the frames of a cycle, and the steps that send them or touch the backend
C17_OrderAndIdEcho ==
  /\ []C17_IdEcho
  /\ [][C17_OrderStep]_vars

\* the RequestAck of the second command is out, the command is about to be executed
C17_Witness ==
  /\ procPc = "execute" /\ commandData.packet_id = 2
  /\ Len(sent) = 1 /\ sent[1].kind = PACKET_TYPE_REQ_ACK /\ sent[1].packet_id = 2

(***************************************************************************)
(* C18.  Routing: a record is put into commandDataQueue only for a         *)
(* datagram that holds a Command packet, and into replyAckQueue only for   *)
(* one that holds a ReplyAck packet; the record is the datagram's, and the *)
(* router keeps no copy to enqueue again.  A datagram that holds no packet *)
(* and a Response or RequestAck change no queue, and the router stays at   *)
(* its receive for the next datagram.                                      *)
(***************************************************************************)
\* the datagram d holds a packet of type kind
C18_Holds(d, kind) ==
  /\ Len(d.bytes) >= 5 /\ d.bytes[1] = kind
  /\ kind = PACKET_TYPE_COMMAND => Len(d.bytes) >= 14

C18_RoutingStep ==
  /\ Len(commandDataQueue') > Len(commandDataQueue) =>
       /\ routerPc = "sendCommand" /\ C18_Holds(packet, PACKET_TYPE_COMMAND)
       /\ commandDataQueue' =
            Append(commandDataQueue, Enqueued(packetToCommandData(packet), enqueued + 1))
       /\ Len(replyAckQueue') <= Len(replyAckQueue)
       /\ routerPc' = "recv" /\ packet' = NoPacket
  /\ Len(replyAckQueue') > Len(replyAckQueue) =>
       /\ routerPc = "sendReplyAck" /\ C18_Holds(packet, PACKET_TYPE_REPLY_ACK)
       /\ replyAckQueue' = Append(replyAckQueue, packetToReplyAck(packet))
       /\ Len(commandDataQueue') <= Len(commandDataQueue)
       /\ routerPc' = "recv" /\ packet' = NoPacket
  /\ Len(socket') < Len(socket) =>
       /\ routerPc = "recv"
       /\ socket' = Tail(socket)
       /\ commandDataQueue' = commandDataQueue /\ replyAckQueue' = replyAckQueue
       /\ IF C18_Holds(Head(socket), PACKET_TYPE_COMMAND)
            THEN routerPc' = "sendCommand" /\ packet' = Head(socket)
            ELSE IF C18_Holds(Head(socket), PACKET_TYPE_REPLY_ACK)
              THEN routerPc' = "sendReplyAck" /\ packet' = Head(socket)
              ELSE routerPc' = "recv" /\ packet' = NoPacket

\* the router holds a datagram exactly while it is in an enqueue, and no more
\* Command records were enqueued than Command datagrams were received
C18_AtMostOnce ==
  /\ routerPc = "recv" <=> packet = NoPacket
  /\ enqueued + Len(SelectSeq(socket, LAMBDA d : C18_Holds(d, PACKET_TYPE_COMMAND)))
       + (IF routerPc = "sendCommand" THEN 1 ELSE 0) <= mSent

\* C18: every step that receives a datagram or fills a queue
C18_Routing ==
  /\ [][C18_RoutingStep]_vars
  /\ []C18_AtMostOnce

\* a datagram that is not for the slave was received and dropped, and the
\* Command datagram was routed
C18_Witness ==
  /\ mNoise = 1 /\ mSent = 1 /\ enqueued = 1
  /\ socket = <<>> /\ routerPc = "recv" /\ replyAckQueue = <<>>


(***************************************************************************)
(* C19. No deduplication: the slave compares no packet_id with an earlier  *)
(* one.  Every enqueued Command, whether its packet_id is new, equal to an *)
(* earlier one or lower, is taken by the processor in a cycle of its own   *)
(* and executed there; a retransmitted write is applied once per enqueued  *)
(* copy; each copy gets its own RequestAck and its own Response(s).        *)
(***************************************************************************)
\* the write commands that are enqueued or taken and not yet executed
C19_WritesToExecute ==
  Cardinality({i \in DOMAIN commandDataQueue :
                 commandDataQueue[i].command_type = COMMAND_TYPE_WRITE_REGISTER})
    + (IF procPc \in {"reqAck", "execute"}
         THEN calls(commandData, COMMAND_TYPE_WRITE_REGISTER) ELSE 0)

\* every enqueued copy is taken on its own, and every write taken is applied
C19_EveryCopyExecuted ==
  /\ commandData.seq + Len(commandDataQueue) = enqueued
  /\ regWrites + C19_WritesToExecute = writesEnqueued
  /\ procPc \in {"reset", "loop", "response", "waitAck", "afterLoop"} =>
       /\ responseData.packet_id = commandData.packet_id
       /\ commandData.command_type = COMMAND_TYPE_WRITE_REGISTER =>
            /\ responseData.reg_value = commandData.reg_value
            /\ commandData.reg_address \in DOMAIN regs =>
                 regs[commandData.reg_address] = commandData.reg_value

\* every copy has a RequestAck and at least one Response of its own
C19_EveryCopyAnswered ==
  CycleOver =>
    /\ NumReqAcks = 1 /\ NumResponses >= 1
    /\ \A i \in DOMAIN sent : sent[i].packet_id = commandData.packet_id

\* taking a copy starts a cycle whatever packet_id was answered before, and the
\* cycle executes it: the backend is called once for a read or a write
C19_CycleStep ==
  /\ commandData'.seq # commandData.seq =>
       /\ commandData'.seq = commandData.seq + 1
       /\ commandData' = Head(commandDataQueue)
       /\ procPc' = "reqAck" /\ sent' = <<>>
  /\ (procPc = "execute" /\ procPc' # "execute") =>
       /\ regWrites' = regWrites + calls(commandData, COMMAND_TYPE_WRITE_REGISTER)
       /\ regReads' = regReads + calls(commandData, COMMAND_TYPE_READ_REGISTER)
       /\ responseData'.packet_id = commandData.packet_id

C19_NoDeduplication ==
  /\ [](C19_EveryCopyExecuted /\ C19_EveryCopyAnswered)
  /\ [][C19_CycleStep]_vars

\* write commands reached the slave with packet_ids going down and the last one
\* twice; all were enqueued, and the last copy has been applied and answered
C19_Witness ==
  /\ scenario.step = -1 /\ enqueued = scenario.total /\ regWrites = scenario.total
  /\ commandData.seq = scenario.total /\ procPc = "afterLoop"

(***************************************************************************)
(* C20. Initialisation order: for every scheduling of the two tasks from   *)
(* system start, commandDataQueue and replyAckQueue have been created      *)
(* before commandsProcessTask first receives from, resets or sends through *)
(* them: the processor never calls a queue function on a handle that has   *)
(* not been created.                                                       *)
(***************************************************************************)
C20_QueuesCreatedBeforeUse == ~nullHandleUsed
=============================================================================
